---- MODULE Spec2Model ----
(***************************************************************************)
(* Model of the BIP38 codec (class Bip38) and of the version-two transfer  *)
(* handler's bootstrap().                                                  *)
(*                                                                         *)
(* Buffers are sequences of segments <<term, lo, hi>>: the bytes lo..hi-1  *)
(* of the byte string that `term` denotes.  A literal byte b is the        *)
(* segment <<<<"lit", b>>, 0, 1>>.  The outputs of the injected primitives *)
(* (scrypt, AES-256-ECB, hash256, hash160, secp256k1) are symbolic terms   *)
(* over their inputs: two outputs are equal exactly when the primitive and *)
(* its inputs are equal, and the only algebraic laws are the ones the      *)
(* primitives really have (xor is an involution, AES decryption inverts    *)
(* encryption under the same key, Base58Check decoding inverts encoding).  *)
(***************************************************************************)
EXTENDS Integers, Sequences, FiniteSets, TLC

(***************************************************************************)
(* Bounds of the model.                                                    *)
(***************************************************************************)
NumKeys == 2
NumBodies == 2
NumAddresses == 2
MaxTx == 2
MaxAmount == 2
MaxBalance == 1
MaxRuns == 2

MaxFee == 1

MaxNonce == 2

(***************************************************************************)
(* Buffer algebra (Node's Buffer).                                         *)
(***************************************************************************)
Lit(b) == <<<<"lit", b>>, 0, 1>>

Whole(term, n) == <<term, 0, n>>

SegLen(s) == s[3] - s[2]

RECURSIVE BufLen(_)
BufLen(buf) == IF Len(buf) = 0 THEN 0 ELSE SegLen(Head(buf)) + BufLen(Tail(buf))

\* Adjacent segments that continue the same term are one run of bytes.
RECURSIVE Norm(_)
Norm(buf) ==
    IF Len(buf) < 2 THEN buf
    ELSE LET s == buf[1]
             t == buf[2]
         IN IF s[1] = t[1] /\ s[3] = t[2]
            THEN Norm(<<<<s[1], s[2], t[3]>>>> \o SubSeq(buf, 3, Len(buf)))
            ELSE <<s>> \o Norm(Tail(buf))

\* buf.slice(a, b)
RECURSIVE Slice(_, _, _)
Slice(buf, a, b) ==
    IF Len(buf) = 0 \/ b <= 0 \/ a >= b THEN <<>>
    ELSE LET s == Head(buf)
             n == SegLen(s)
             lo == IF a > 0 THEN a ELSE 0
             hi == IF b < n THEN b ELSE n
             part == IF lo < hi THEN <<<<s[1], s[2] + lo, s[2] + hi>>>> ELSE <<>>
         IN part \o Slice(Tail(buf), a - n, b - n)

\* Buffer.concat([a, b])
Concat(a, b) == Norm(a \o b)

\* src.copy(target, offset): overwrites target[offset .. offset + src.length)
Copy(target, src, offset) ==
    LET n == BufLen(target)
        m == BufLen(src)
        fit == IF offset + m <= n THEN m ELSE n - offset
    IN Norm(Slice(target, 0, offset) \o Slice(src, 0, fit) \o Slice(target, offset + fit, n))

\* Buffer.allocUnsafe(n): n bytes of unspecified content
\* The content of the pool allocUnsafe() takes its memory from: left there by
\* earlier work of the process, and different from one call to the next
VARIABLE heap

allocUnsafe(n) == <<Whole(<<"uninit", heap>>, n)>>

\* Buffer.alloc(n): n zero bytes
RECURSIVE alloc(_)
alloc(n) == IF n = 0 THEN <<>> ELSE <<Lit(0)>> \o alloc(n - 1)

\* buf.writeUInt8(value, offset)
writeUInt8(buf, value, offset) == Copy(buf, <<Lit(value)>>, offset)

\* buf.readUInt8(i), for 0 <= i < buf.length.  The numeric value of a byte is
\* known only for literal bytes; 256 stands for any other byte.
readUInt8(buf, i) ==
    LET s == Slice(buf, i, i + 1)[1]
    IN IF s[1][1] = "lit" THEN s[1][2] ELSE 256

IsLiteral(buf) == \A i \in 1..Len(buf) : buf[i][1][1] = "lit"

(***************************************************************************)
(* JavaScript bitwise operators on 32-bit integers.  \div rounds down and  *)
(* % is never negative, so a % 2 and a \div 2 walk the two's complement    *)
(* bits of a negative number too.                                          *)
(***************************************************************************)
RECURSIVE BitAndN(_, _, _)
BitAndN(a, b, n) ==
    IF n = 0 THEN 0
    ELSE (IF a % 2 = 1 /\ b % 2 = 1 THEN 1 ELSE 0) + 2 * BitAndN(a \div 2, b \div 2, n - 1)

RECURSIVE BitXorN(_, _, _)
BitXorN(a, b, n) ==
    IF n = 0 THEN 0
    ELSE (IF a % 2 # b % 2 THEN 1 ELSE 0) + 2 * BitXorN(a \div 2, b \div 2, n - 1)

\* a & b on 32-bit two's complement integers (bit 31 is the sign)
BitAnd(a, b) ==
    LET low == BitAndN(a, b, 31)
    IN IF a < 0 /\ b < 0 THEN (low - 2147483647) - 1 ELSE low

\* ~a
BitNot(a) == (0 - a) - 1

(***************************************************************************)
(* Strings.  A passphrase is a JavaScript string: a sequence of UTF-16     *)
(* code units.  Buffer.from(s, "utf8") encodes it; a surrogate that is not *)
(* part of a pair is encoded as U+FFFD (EF BF BD).                         *)
(***************************************************************************)
IsHighSurrogate(u) == u >= 55296 /\ u <= 56319
IsLowSurrogate(u) == u >= 56320 /\ u <= 57343

Utf8CodePoint(cp) ==
    IF cp < 128 THEN <<Lit(cp)>>
    ELSE IF cp < 2048 THEN <<Lit(192 + (cp \div 64)), Lit(128 + (cp % 64))>>
    ELSE IF cp < 65536
         THEN <<Lit(224 + (cp \div 4096)), Lit(128 + ((cp \div 64) % 64)), Lit(128 + (cp % 64))>>
         ELSE <<Lit(240 + (cp \div 262144)), Lit(128 + ((cp \div 4096) % 64)),
                Lit(128 + ((cp \div 64) % 64)), Lit(128 + (cp % 64))>>

RECURSIVE Utf8(_)
Utf8(str) ==
    IF Len(str) = 0 THEN <<>>
    ELSE LET u == Head(str)
         IN IF IsHighSurrogate(u) /\ Len(str) >= 2 /\ IsLowSurrogate(str[2])
            THEN Utf8CodePoint(65536 + (u - 55296) * 1024 + (str[2] - 56320))
                     \o Utf8(SubSeq(str, 3, Len(str)))
            ELSE IF IsHighSurrogate(u) \/ IsLowSurrogate(u)
                 THEN Utf8CodePoint(65533) \o Utf8(Tail(str))
                 ELSE Utf8CodePoint(u) \o Utf8(Tail(str))

(***************************************************************************)
(* Injected primitives (Libraries, HashAlgorithms, Base58, Keys).          *)
(***************************************************************************)
\* hashAlgorithms.hash256(data): SHA-256 twice, 32 bytes
hash256(data) == <<Whole(<<"hash256", data>>, 32)>>

\* hashAlgorithms.hash160(data): RIPEMD-160 of SHA-256, 20 bytes
hash160(data) == <<Whole(<<"hash160", data>>, 20)>>

\* libraries.scryptSync(password, salt, keylen, {N, r, p})
scryptSync(password, salt, keylen, params) ==
    <<Whole(<<"scrypt", password, salt, keylen, params.N, params.r, params.p>>, keylen)>>

\* libraries.xor(a, b): bytewise exclusive or
RECURSIVE XorLit(_, _)
XorLit(a, b) ==
    IF Len(a) = 0 \/ Len(b) = 0 THEN <<>>
    ELSE <<Lit(BitXorN(a[1][1][2], b[1][1][2], 8))>> \o XorLit(Tail(a), Tail(b))

IsXorOf(buf, x) ==
    /\ Len(buf) = 1
    /\ buf[1][1][1] = "xor"
    /\ buf[1][2] = 0
    /\ buf[1][3] = BufLen(x)
    /\ (buf[1][1][2] = x \/ buf[1][1][3] = x)

XorOther(buf, x) == IF buf[1][1][2] = x THEN buf[1][1][3] ELSE buf[1][1][2]

xor(a, b) ==
    IF IsLiteral(a) /\ IsLiteral(b) THEN XorLit(a, b)
    ELSE IF IsXorOf(b, a) THEN XorOther(b, a)
    ELSE IF IsXorOf(a, b) THEN XorOther(a, b)
    ELSE <<Whole(<<"xor", a, b>>, IF BufLen(a) < BufLen(b) THEN BufLen(a) ELSE BufLen(b))>>

\* One 16-byte block of AES-256: a permutation of the blocks for each key.
IsAesOf(block, tag, key) ==
    /\ Len(block) = 1
    /\ block[1][1][1] = tag
    /\ block[1][2] = 0
    /\ block[1][3] = 16
    /\ block[1][1][2] = key

AesEncryptBlock(key, block) ==
    IF IsAesOf(block, "aes-dec", key) THEN block[1][1][3]
    ELSE <<Whole(<<"aes-enc", key, block>>, 16)>>

AesDecryptBlock(key, block) ==
    IF IsAesOf(block, "aes-enc", key) THEN block[1][1][3]
    ELSE <<Whole(<<"aes-dec", key, block>>, 16)>>

\* createCipheriv("aes-256-ecb", key, NULL), setAutoPadding(false), end(data), read()
RECURSIVE createCipheriv(_, _)
createCipheriv(key, data) ==
    IF BufLen(data) < 16 THEN <<>>
    ELSE Concat(AesEncryptBlock(key, Norm(Slice(data, 0, 16))),
                createCipheriv(key, Slice(data, 16, BufLen(data))))

\* createDecipheriv("aes-256-ecb", key, NULL), setAutoPadding(false), end(data), read()
RECURSIVE createDecipheriv(_, _)
createDecipheriv(key, data) ==
    IF BufLen(data) < 16 THEN <<>>
    ELSE Concat(AesDecryptBlock(key, Norm(Slice(data, 0, 16))),
                createDecipheriv(key, Slice(data, 16, BufLen(data))))

\* libraries.secp256k1.privateKeyTweakMul(privateKey, tweak)
privateKeyTweakMul(privateKey, tweak) == <<Whole(<<"tweak-mul", privateKey, tweak>>, 32)>>

\* Keys.fromPrivateKeyWithAlgorithm(buffer, secp256k1, compressed).publicKey
publicKeyOf(privateKey, compressed) ==
    <<Whole(<<"public-key", privateKey, compressed>>, IF compressed THEN 33 ELSE 65)>>

\* base58.encodeCheck(payload): Base58 of payload || hash256(payload)[0..4)
encodeCheck(payload) == <<"base58", Concat(payload, Slice(hash256(payload), 0, 4))>>

\* base58.decodeCheck(str): the payload, or the codec's error
decodeCheck(str) ==
    IF str[1] # "base58" THEN [status |-> "FormatError", payload |-> <<>>]
    ELSE LET bytes == str[2]
             n == BufLen(bytes)
             payload == Slice(bytes, 0, n - 4)
         IN IF n < 4 \/ Slice(bytes, n - 4, n) # Slice(hash256(payload), 0, 4)
            THEN [status |-> "ChecksumError", payload |-> <<>>]
            ELSE [status |-> "ok", payload |-> payload]

\* The characters of a Base58 string, as hash256() receives them.  How many
\* they are depends on the value of the bytes the string encodes (leading
\* zero bytes are one "1" each, the rest is a number in base 58), which a
\* symbolic hash does not have: the text is kept as a term of the string,
\* without a length.
StringBytes(str) == <<"text", str>>

(***************************************************************************)
(* class Bip38                                                             *)
(***************************************************************************)
\* The memory that outlives a call: the two public fields of the instance,
\* and the key buffer the caller passed to encrypt() (empty before that)
VARIABLE memory

\* The fields as the constructor leaves them
Constructed ==
    [NULL |-> alloc(0), SCRYPT_PARAMS |-> [N |-> 16384, r |-> 8, p |-> 8], privateKey |-> <<>>]

NULL == memory.NULL

SCRYPT_PARAMS == memory.SCRYPT_PARAMS

\* The parameters of the seed-pass stretch of decryptECMult
SEED_PARAMS_standard == [N |-> 16384, r |-> 8, p |-> 8]

SEED_PARAMS == [N |-> 1024, r |-> 1, p |-> 1]

\* One key stretching call, as recorded in a call's trace
Stretch(params, salt, keylen) ==
    [N |-> params.N, r |-> params.r, p |-> params.p, saltlen |-> BufLen(salt), keylen |-> keylen]

NoString == <<"none", 0>>

\* One statement that stores into a buffer, as recorded in a call's trace:
\* the variable it stores through and the object that variable refers to.
\* An object is named by the expression that created it, or, when it exists
\* outside the call, by the field or the argument of the public method that
\* holds it ("NULL", "SCRYPT_PARAMS", "privateKey").  A slice() is a view of
\* the object sliced.  xor(a, b) is recorded as a store into a: the library
\* may work in place.
Written(statement, target, object) ==
    [statement |-> statement, target |-> target, object |-> object]

\* payload.writeUInt8(0x00, 0); buffer.copy(payload, 1) of getAddressPrivate
payloadWrites ==
    <<Written("writeUInt8", "payload", "Buffer.alloc"),
      Written("copy", "payload", "Buffer.alloc")>>

\* result.writeUInt8() three times, salt.copy(result, 3) and
\* cipherText.copy(result, 7) of encryptRaw
resultWrites ==
    <<Written("writeUInt8", "result", "Buffer.allocUnsafe"),
      Written("writeUInt8", "result", "Buffer.allocUnsafe"),
      Written("writeUInt8", "result", "Buffer.allocUnsafe"),
      Written("copy", "result", "Buffer.allocUnsafe"),
      Written("copy", "result", "Buffer.allocUnsafe")>>

getPublicKey(buffer, compressed) == publicKeyOf(buffer, compressed)

getAddressPrivate(privateKey, compressed) ==
    LET publicKey == getPublicKey(privateKey, compressed)
        buffer == hash160(publicKey)
        payload0 == alloc(21)
        payload1 == writeUInt8(payload0, 0, 0)
        payload == Copy(payload1, buffer, 1)
    IN encodeCheck(payload)

\* encryptRaw's guard on the key length
KeyLengthOk_atLeast(buffer) == BufLen(buffer) >= 32

KeyLengthOk(buffer) == BufLen(buffer) = 32

\* 0x01 | 0x42 | flagByte | salt (4) | cipherText (32)
assemble_noFlag(compressed, salt, cipherText) ==
    LET result0 == allocUnsafe(7 + 32)
        result1 == writeUInt8(result0, 1, 0)
        result2 == writeUInt8(result1, 66, 1)
        result4 == Copy(result2, salt, 3)
    IN Copy(result4, cipherText, 7)

assemble_saltAt4(compressed, salt, cipherText) ==
    LET result0 == allocUnsafe(7 + 32)
        result1 == writeUInt8(result0, 1, 0)
        result2 == writeUInt8(result1, 66, 1)
        result3 == writeUInt8(result2, IF compressed THEN 224 ELSE 192, 2)
        result4 == Copy(result3, salt, 4)
    IN Copy(result4, cipherText, 7)

assemble(compressed, salt, cipherText) ==
    LET result0 == allocUnsafe(7 + 32)
        result1 == writeUInt8(result0, 1, 0)
        result2 == writeUInt8(result1, 66, 1)
        result3 == writeUInt8(result2, IF compressed THEN 224 ELSE 192, 2)
        result4 == Copy(result3, salt, 3)
    IN Copy(result4, cipherText, 7)

\* encryptRaw(buffer, compressed, passphrase); buffer is the privateKey of
\* encrypt, passed on by reference
encryptRaw_xorIntoKey(buffer, compressed, passphrase) ==
    IF ~KeyLengthOk(buffer)
    THEN [status |-> "PrivateKeyLengthError", result |-> <<>>, log |-> <<>>, stretch |-> <<>>,
          writes |-> <<>>]
    ELSE LET address == getAddressPrivate(buffer, compressed)
             secret == Utf8(passphrase)
             salt == Slice(hash256(StringBytes(address)), 0, 4)
             scryptBuf == scryptSync(secret, salt, 64, SCRYPT_PARAMS)
             derivedHalf1 == Slice(scryptBuf, 0, 32)
             derivedHalf2 == Slice(scryptBuf, 32, 64)
             xorBuf == xor(buffer, derivedHalf1)
             cipherText == createCipheriv(derivedHalf2, xorBuf)
         IN [status |-> "ok", result |-> assemble(compressed, salt, cipherText),
             log |-> <<"getAddressPrivate", "hash256", "scryptSync", "xor", "createCipheriv">>,
             stretch |-> <<Stretch(SCRYPT_PARAMS, salt, 64)>>,
             writes |-> payloadWrites \o <<Written("xor", "buffer", "privateKey")>>
                            \o resultWrites]

encryptRaw(buffer, compressed, passphrase) ==
    IF ~KeyLengthOk(buffer)
    THEN [status |-> "PrivateKeyLengthError", result |-> <<>>, log |-> <<>>, stretch |-> <<>>,
          writes |-> <<>>]
    ELSE LET address == getAddressPrivate(buffer, compressed)
             secret == Utf8(passphrase)
             salt == Slice(hash256(StringBytes(address)), 0, 4)
             scryptBuf == scryptSync(secret, salt, 64, SCRYPT_PARAMS)
             derivedHalf1 == Slice(scryptBuf, 0, 32)
             derivedHalf2 == Slice(scryptBuf, 32, 64)
             xorBuf == xor(derivedHalf1, buffer)
             cipherText == createCipheriv(derivedHalf2, xorBuf)
         IN [status |-> "ok", result |-> assemble(compressed, salt, cipherText),
             log |-> <<"getAddressPrivate", "hash256", "scryptSync", "xor", "createCipheriv">>,
             stretch |-> <<Stretch(SCRYPT_PARAMS, salt, 64)>>,
             writes |-> payloadWrites \o <<Written("xor", "derivedHalf1", "scryptSync")>>
                            \o resultWrites]

encrypt(privateKey, compressed, passphrase) ==
    LET raw == encryptRaw(privateKey, compressed, passphrase)
    IN IF raw.status # "ok"
       THEN [status |-> raw.status, value |-> NoString, raw |-> <<>>,
             log |-> raw.log, stretch |-> raw.stretch, writes |-> raw.writes]
       ELSE [status |-> "ok", value |-> encodeCheck(raw.result), raw |-> raw.result,
             log |-> raw.log \o <<"encodeCheck">>, stretch |-> raw.stretch,
             writes |-> raw.writes]

Failure(status, path, check, log) ==
    [status |-> status, privateKey |-> <<>>, compressed |-> FALSE, path |-> path,
     check |-> check, log |-> log, stretch |-> <<>>, derived |-> <<>>, writes |-> <<>>]

\* const compressed = (flag & 0x20) !== 0
flagCompressed_lotBit(flag) == BitAnd(flag, 4) # 0

flagCompressed(flag) == BitAnd(flag, 32) # 0

\* const hasLotSeq = (flag & 0x04) !== 0
flagHasLotSeq_anyBit(flag) == flag # 0

flagHasLotSeq(flag) == BitAnd(flag, 4) # 0

\* assert.strictEqual(flag & 0x24, flag, "Invalid private key.")
flagIsValid_highBitsToo(flag) == BitAnd(flag, 228) = flag

flagIsValid(flag) == BitAnd(flag, 36) = flag

\* 4 bytes ownerSalt if 4 bytes lot/sequence, else 8 bytes ownerSalt
selectOwnerSalt_whole(hasLotSeq, ownerEntropy) == ownerEntropy

selectOwnerSalt(hasLotSeq, ownerEntropy) ==
    IF hasLotSeq THEN Slice(ownerEntropy, 0, 4) ELSE ownerEntropy

\* passFactor: hash256(preFactor || ownerEntropy) with a lot/sequence, else
\* preFactor
selectPassFactor_preFactor(hasLotSeq, preFactor, ownerEntropy) == preFactor

selectPassFactor(hasLotSeq, preFactor, ownerEntropy) ==
    IF hasLotSeq THEN hash256(Concat(preFactor, ownerEntropy)) ELSE preFactor

decryptECMult(buffer0, passphrase) ==
    LET buffer == Slice(buffer0, 1, BufLen(buffer0))
        flag == readUInt8(buffer, 1)
        compressed == flagCompressed(flag)
        hasLotSeq == flagHasLotSeq(flag)
    IN IF ~flagIsValid(flag)
       THEN Failure("AssertionError", "ecmult", "Invalid private key.", <<>>)
       ELSE LET addressHash == Slice(buffer, 2, 6)
                ownerEntropy == Slice(buffer, 6, 14)
                ownerSalt == selectOwnerSalt(hasLotSeq, ownerEntropy)
                encryptedPart1 == Slice(buffer, 14, 22)
                encryptedPart2 == Slice(buffer, 22, 38)
                preFactor == scryptSync(Utf8(passphrase), ownerSalt, 32, SCRYPT_PARAMS)
                passFactor == selectPassFactor(hasLotSeq, preFactor, ownerEntropy)
                publicKey == getPublicKey(passFactor, TRUE)
                seedSalt == Concat(addressHash, ownerEntropy)
                seedBPass == scryptSync(publicKey, seedSalt, 64, SEED_PARAMS)
                derivedHalf1 == Slice(seedBPass, 0, 32)
                derivedHalf2 == Slice(seedBPass, 32, 64)
                decryptedPart2 == createDecipheriv(derivedHalf2, encryptedPart2)
                tmp == xor(decryptedPart2, Slice(derivedHalf1, 16, 32))
                seedBPart2 == Slice(tmp, 8, 16)
                block1 == Concat(encryptedPart1, Slice(tmp, 0, 8))
                seedBPart1 == xor(createDecipheriv(derivedHalf2, block1), Slice(derivedHalf1, 0, 16))
                seedB == Slice(Concat(seedBPart1, seedBPart2), 0, 24)
                privateKey == privateKeyTweakMul(hash256(seedB), passFactor)
            IN [status |-> "ok", privateKey |-> privateKey, compressed |-> compressed,
                path |-> "ecmult", check |-> "",
                log |-> <<"scryptSync">>
                        \o (IF hasLotSeq THEN <<"hash256">> ELSE <<>>)
                        \o <<"getPublicKey", "scryptSync", "createDecipheriv", "xor",
                             "createDecipheriv", "xor", "hash256", "privateKeyTweakMul">>,
                stretch |-> <<Stretch(SCRYPT_PARAMS, ownerSalt, 32),
                              Stretch(SEED_PARAMS, seedSalt, 64)>>,
                derived |-> [ownerSalt |-> ownerSalt, passFactor |-> passFactor,
                             publicKey |-> publicKey],
                writes |-> <<Written("xor", "decryptedPart2", "decipher.read"),
                             Written("xor", "decipher2.read()", "decipher2.read")>>]

\* decryptRaw's checks of the length, the prefix and the type, in the order
\* of the code: the error thrown, or the path taken
headerCheck_typeFirst(buffer) ==
    IF BufLen(buffer) # 39 THEN "Bip38LengthError"
    ELSE LET type == readUInt8(buffer, 1)
         IN IF type = 67 THEN "ecmult"
            ELSE IF type # 66 THEN "Bip38TypeError"
            ELSE IF readUInt8(buffer, 0) # 1 THEN "Bip38PrefixError"
            ELSE "direct"

headerCheck(buffer) ==
    IF BufLen(buffer) # 39 THEN "Bip38LengthError"
    ELSE IF readUInt8(buffer, 0) # 1 THEN "Bip38PrefixError"
    ELSE LET type == readUInt8(buffer, 1)
         IN IF type = 67 THEN "ecmult"
            ELSE IF type # 66 THEN "Bip38TypeError"
            ELSE "direct"

\* the flag byte is rejected: !compressed && flagByte !== 0xc0
compressionRejected_never(compressed, flagByte) == FALSE

compressionRejected(compressed, flagByte) == ~compressed /\ flagByte # 192

\* privateKey = xor(derivedHalf1, plainText)
recoverKey_noXor(derivedHalf1, plainText) == plainText

recoverKey(derivedHalf1, plainText) == xor(derivedHalf1, plainText)

\* assert.deepEqual(salt, checksum) passes
saltMatches_skipped(salt, checksum) == TRUE

saltMatches(salt, checksum) == salt = checksum

decryptRaw(buffer, passphrase) ==
    LET header == headerCheck(buffer)
    IN IF header = "ecmult" THEN decryptECMult(buffer, passphrase)
       ELSE IF header # "direct" THEN Failure(header, "none", "", <<>>)
       ELSE LET flagByte == readUInt8(buffer, 2)
                compressed == flagByte = 224
            IN IF compressionRejected(compressed, flagByte)
               THEN Failure("Bip38CompressionError", "direct", "", <<>>)
               ELSE LET salt == Slice(buffer, 3, 7)
                        scryptBuf == scryptSync(Utf8(passphrase), salt, 64, SCRYPT_PARAMS)
                        derivedHalf1 == Slice(scryptBuf, 0, 32)
                        derivedHalf2 == Slice(scryptBuf, 32, 64)
                        privKeyBuf == Slice(buffer, 7, 7 + 32)
                        plainText == createDecipheriv(derivedHalf2, privKeyBuf)
                        privateKey == recoverKey(derivedHalf1, plainText)
                        address == getAddressPrivate(privateKey, compressed)
                        checksum == Slice(hash256(StringBytes(address)), 0, 4)
                        log == <<"scryptSync", "createDecipheriv", "xor",
                                 "getAddressPrivate", "hash256">>
                        stores == <<Written("xor", "derivedHalf1", "scryptSync")>>
                                      \o payloadWrites
                    IN IF ~saltMatches(salt, checksum)
                       THEN [Failure("AssertionError", "direct", "salt", log)
                                EXCEPT !.stretch = <<Stretch(SCRYPT_PARAMS, salt, 64)>>,
                                       !.writes = stores]
                       ELSE [status |-> "ok", privateKey |-> privateKey,
                             compressed |-> compressed, path |-> "direct", check |-> "",
                             log |-> log,
                             stretch |-> <<Stretch(SCRYPT_PARAMS, salt, 64)>>,
                             derived |-> <<>>, writes |-> stores]

\* decrypt(bip38, passphrase) = decryptRaw(base58.decodeCheck(bip38), passphrase)
decrypt_unchecked(bip38, passphrase) ==
    IF bip38[1] # "base58" THEN Failure("FormatError", "none", "decodeCheck", <<>>)
    ELSE decryptRaw(Slice(bip38[2], 0, BufLen(bip38[2]) - 4), passphrase)

decrypt(bip38, passphrase) ==
    LET decoded == decodeCheck(bip38)
    IN IF decoded.status # "ok"
       THEN Failure(decoded.status, "none", "decodeCheck", <<>>)
       ELSE decryptRaw(decoded.payload, passphrase)

\* verify's test of the type and flag bytes
verifyFlag_uncompressedOnly(type, flag) ==
    IF type = 66 THEN ~(flag # 192)
    ELSE IF type = 67 THEN ~(BitAnd(flag, BitNot(36)) # 0)
    ELSE FALSE

verifyFlag_maskNotInverted(type, flag) ==
    IF type = 66 THEN ~(flag # 192 /\ flag # 224)
    ELSE IF type = 67 THEN ~(BitAnd(flag, 36) # 0)
    ELSE FALSE

verifyFlag(type, flag) ==
    IF type = 66 THEN ~(flag # 192 /\ flag # 224)
    ELSE IF type = 67 THEN ~(BitAnd(flag, BitNot(36)) # 0)
    ELSE FALSE

verify_noPrefixCheck(bip38) ==
    LET decoded == decodeCheck(bip38)
    IN IF decoded.status # "ok" THEN FALSE
       ELSE IF BufLen(decoded.payload) # 39 THEN FALSE
       ELSE verifyFlag(readUInt8(decoded.payload, 1), readUInt8(decoded.payload, 2))

verify(bip38) ==
    LET decoded == decodeCheck(bip38)
    IN IF decoded.status # "ok" THEN FALSE
       ELSE IF BufLen(decoded.payload) # 39 THEN FALSE
       ELSE IF readUInt8(decoded.payload, 0) # 1 THEN FALSE
       ELSE verifyFlag(readUInt8(decoded.payload, 1), readUInt8(decoded.payload, 2))

(***************************************************************************)
(* TransferTransactionHandler (version two): bootstrap()                   *)
(***************************************************************************)
Addresses == 1..NumAddresses

Tasks == 1..MaxRuns

\* walletRepository.findByAddress(address)
findByAddress(repository, address) == repository[address]

\* transactionRepository.findReceivedTransactions()
findReceivedTransactions(store) == store

\* wallet.balance = wallet.balance.plus(transaction.amount)
creditWallet_countsReceipt(wallet, transaction) ==
    [balance |-> wallet.balance + transaction.amount, nonce |-> wallet.nonce + 1]

creditWallet_overwrite(wallet, transaction) == [wallet EXCEPT !.balance = transaction.amount]

creditWallet(wallet, transaction) == [wallet EXCEPT !.balance = @ + transaction.amount]

\* for (const transaction of transactions) { ... }
RECURSIVE bootstrapLoop_skipsLast(_, _)
bootstrapLoop_skipsLast(repository, transactions) ==
    IF Len(transactions) <= 1 THEN repository
    ELSE LET transaction == Head(transactions)
             wallet == findByAddress(repository, transaction.recipientId)
         IN bootstrapLoop_skipsLast(
                [repository EXCEPT ![transaction.recipientId] = creditWallet(wallet, transaction)],
                Tail(transactions))

RECURSIVE bootstrapLoop(_, _)
bootstrapLoop(repository, transactions) ==
    IF Len(transactions) = 0 THEN repository
    ELSE LET transaction == Head(transactions)
             wallet == findByAddress(repository, transaction.recipientId)
         IN bootstrapLoop(
                [repository EXCEPT ![transaction.recipientId] = creditWallet(wallet, transaction)],
                Tail(transactions))

(***************************************************************************)
(* The apply/revert protocol of a transfer, inherited by the handler from  *)
(* its base class.  A transaction carries senderId, recipientId, amount,   *)
(* fee and nonce; a wallet carries balance and nonce.                      *)
(***************************************************************************)
\* throwIfCannotBeApplied(transaction, wallet): "ok", or the rejection
throwIfCannotBeApplied(transaction, wallet) ==
    IF transaction.nonce # wallet.nonce + 1 THEN "UnexpectedNonceError"
    ELSE IF wallet.balance < transaction.amount + transaction.fee
    THEN "InsufficientBalanceError"
    ELSE "ok"

\* applyToSender(transaction), after validation
applyToSender(repository, transaction) ==
    LET sender == findByAddress(repository, transaction.senderId)
    IN [repository EXCEPT ![transaction.senderId] =
            [balance |-> sender.balance - (transaction.amount + transaction.fee),
             nonce |-> sender.nonce + 1]]

\* applyToRecipient(transaction)
applyToRecipient(repository, transaction) ==
    LET recipient == findByAddress(repository, transaction.recipientId)
    IN [repository EXCEPT ![transaction.recipientId] =
            [recipient EXCEPT !.balance = @ + transaction.amount]]

\* apply(transaction): validate, then the sender, then the recipient
applyTransaction_senderFirst(repository, transaction) ==
    LET sender == findByAddress(repository, transaction.senderId)
        status == throwIfCannotBeApplied(transaction, sender)
        debited == applyToSender(repository, transaction)
    IN IF status # "ok" THEN [status |-> status, repository |-> debited]
       ELSE [status |-> "ok", repository |-> applyToRecipient(debited, transaction)]

applyTransaction(repository, transaction) ==
    LET sender == findByAddress(repository, transaction.senderId)
        status == throwIfCannotBeApplied(transaction, sender)
    IN IF status # "ok" THEN [status |-> status, repository |-> repository]
       ELSE [status |-> "ok",
             repository |-> applyToRecipient(applyToSender(repository, transaction),
                                             transaction)]

\* revertForSender(transaction)
revertForSender_keepsNonce(repository, transaction) ==
    LET sender == findByAddress(repository, transaction.senderId)
    IN [repository EXCEPT ![transaction.senderId] =
            [sender EXCEPT !.balance = @ + (transaction.amount + transaction.fee)]]

revertForSender(repository, transaction) ==
    LET sender == findByAddress(repository, transaction.senderId)
    IN [repository EXCEPT ![transaction.senderId] =
            [balance |-> sender.balance + (transaction.amount + transaction.fee),
             nonce |-> sender.nonce - 1]]

\* revertForRecipient(transaction)
revertForRecipient(repository, transaction) ==
    LET recipient == findByAddress(repository, transaction.recipientId)
    IN [repository EXCEPT ![transaction.recipientId] =
            [recipient EXCEPT !.balance = @ - transaction.amount]]

\* revert(transaction): the sender, then the recipient
revertTransaction(repository, transaction) ==
    revertForRecipient(revertForSender(repository, transaction), transaction)

(***************************************************************************)
(* State.                                                                  *)
(*   bip38     the encoded string at hand (NoString when there is none)    *)
(*   enc       the encrypt() call that produced it, with its outcome       *)
(*   crafted   the payload it was built from, when it was not encrypted    *)
(*   tamper    the change made to the string after encrypt() returned it   *)
(*   again     the second execution of a call, and whether its outcome     *)
(*             was that of the first                                       *)
(*   dec, ver  the last decrypt() and verify() of the string at hand       *)
(*   wallets   the wallet repository; wallets0 its content at startup      *)
(*   history   the historical receive-transactions of the store            *)
(*   tasks     the bootstrap() calls: idle, awaiting the query, or done    *)
(*   frames    the locals of each bootstrap() call once it has resumed:    *)
(*             the transactions found, the index of the one at hand, the   *)
(*             balance read for it                                         *)
(*   ledger    the last transfer handled, its stage, and the repository    *)
(*             as it was before the handler touched it                     *)
(***************************************************************************)
VARIABLES bip38, enc, crafted, tamper, dec, ver, again, wallets, wallets0, history, tasks, frames, ledger

varsBip38 == <<memory, heap, bip38, enc, crafted, tamper, dec, ver, again>>

varsTransfer == <<wallets, wallets0, history, tasks, frames, ledger>>

vars == <<memory, heap, bip38, enc, crafted, tamper, dec, ver, again, wallets, wallets0, history, tasks, frames, ledger>>

\* Inputs of the codec
RECURSIVE Bytes(_, _, _)
Bytes(first, step, n) ==
    IF n = 0 THEN <<>> ELSE <<Lit(first % 256)>> \o Bytes(first + step, step, n - 1)

KeyLengths == {31, 32, 33}

PrivateKeys == {Bytes(k, 1, n) : k \in 1..NumKeys, n \in KeyLengths}

\* "a", and two strings of one unpaired surrogate each (U+D800, U+D801)
Passphrases == {<<97>>, <<55296>>, <<55297>>}

CraftLengths == {38, 39, 40}

CraftPrefixes == {0, 1}

CraftTypes == {65, 66, 67}

CraftFlags == {0, 4, 32, 36, 192, 224, 228}

CraftCodings == {"ok", "checksum", "format"}

\* The crafted strings tried: every header of a decodable 39-byte payload that
\* starts with 0x01, and a few of each other kind
CraftInputs ==
    {c \in CraftCodings \X CraftLengths \X CraftPrefixes \X CraftTypes \X CraftFlags
              \X (1..NumBodies) :
        /\ c[1] # "ok" => c[6] = 1 /\ c[5] = 192 /\ c[2] <= 39 /\ c[4] <= 66 /\ c[3] = 1
        /\ (c[1] = "ok" /\ (c[2] # 39 \/ c[3] # 1)) => c[6] = 1 /\ c[5] \in {0, 192}}

Payload(len, prefix, type, flag, body) ==
    <<Lit(prefix), Lit(type), Lit(flag)>> \o Bytes(body, 0, len - 3)

\* The string of a crafted payload: its Base58Check encoding, the Base58 of
\* the payload with four wrong checksum bytes, or text outside the alphabet
CraftString(coding, payload) ==
    IF coding = "ok" THEN encodeCheck(payload)
    ELSE IF coding = "checksum" THEN <<"base58", payload \o Bytes(0, 0, 4)>>
    ELSE <<"not-base58-check", payload>>

NoEnc ==
    [called |-> FALSE, privateKey |-> <<>>, compressed |-> FALSE, passphrase |-> <<>>,
     res |-> [status |-> "none", value |-> NoString, raw |-> <<>>, log |-> <<>>,
              stretch |-> <<>>, writes |-> <<>>]]

NoCraft == [made |-> FALSE, coding |-> "none", len |-> 0, prefix |-> 0, type |-> 0,
            flag |-> 0, body |-> 0]

NoDec == [called |-> FALSE, passphrase |-> <<>>, res |-> Failure("none", "none", "", <<>>)]

NoVer == [called |-> FALSE, result |-> FALSE]

\* The locations of the memory that the statements of a trace store into:
\* the objects written that exist outside the call
writes(trace) == {trace[i].object : i \in DOMAIN trace} \cap DOMAIN Constructed

\* What a location holds after it was written
Overwritten ==
    [NULL |-> alloc(1), SCRYPT_PARAMS |-> [N |-> 1024, r |-> 1, p |-> 1],
     privateKey |-> alloc(32)]

\* The memory after a call that executed the statements of a trace
AfterCall(trace, before) ==
    [location \in DOMAIN before |->
        IF location \in writes(trace) THEN Overwritten[location] ELSE before[location]]

NoFrame == [transactions |-> <<>>, index |-> 0, balance |-> 0, concurrent |-> FALSE]

NoAgain == [called |-> FALSE, call |-> "none", same |-> FALSE]

\* What the pool may hold
Garbage == {0, 255}

NoTamper == [done |-> FALSE, kind |-> "none", position |-> 0, mask |-> 0]

\* The bits flipped in the byte that is changed
TamperMasks == {1}

\* One byte with the bits of mask flipped
FlipByte(byte, mask) ==
    IF byte[1][1][1] = "lit"
    THEN <<Lit(BitXorN(byte[1][1][2], mask, 8))>>
    ELSE <<Whole(<<"flipped", byte, mask>>, 1)>>

\* The bytes of buf with the byte at position flipped
FlipAt(buf, position, mask) ==
    Concat(Concat(Slice(buf, 0, position),
                  FlipByte(Slice(buf, position, position + 1), mask)),
           Slice(buf, position + 1, BufLen(buf)))

\* A changed character of the text either is no Base58 digit any more, or
\* changes the number the text stands for, and so at least one of the bytes
\* it decodes to
TamperString(str, kind, position, mask) ==
    IF kind = "digit" THEN <<"base58", FlipAt(str[2], position, mask)>>
    ELSE <<"not-base58-check", str[2]>>

NoTransaction == [senderId |-> 0, recipientId |-> 0, amount |-> 0, fee |-> 0, nonce |-> 0]

Transactions ==
    [senderId : Addresses, recipientId : Addresses, amount : 0..MaxAmount,
     fee : 0..MaxFee, nonce : 1..MaxNonce]

\* No string at hand and no call made yet
Fresh == bip38 = NoString /\ ~enc.called /\ ~crafted.made

InitBip38 ==
    /\ memory = Constructed
    /\ heap = 0
    /\ again = NoAgain
    /\ bip38 = NoString
    /\ enc = NoEnc
    /\ crafted = NoCraft
    /\ tamper = NoTamper
    /\ dec = NoDec
    /\ ver = NoVer
    /\ wallets = [a \in Addresses |-> [balance |-> 0, nonce |-> 0]]
    /\ wallets0 = wallets
    /\ history = <<>>
    /\ tasks = [t \in Tasks |-> "idle"]
    /\ frames = [t \in Tasks |-> NoFrame]
    /\ ledger = [stage |-> "none", transaction |-> NoTransaction, before |-> wallets]

\* Any initial balances; the nonce of a wallet is a value of its own
InitTransfer ==
    /\ \E balance \in [Addresses -> 0..MaxBalance] :
           wallets = [a \in Addresses |-> [balance |-> balance[a], nonce |-> a]]
    /\ wallets0 = wallets
    /\ \E n \in 0..MaxTx :
           history \in [1..n -> [recipientId : Addresses, amount : 0..MaxAmount]]
    /\ tasks = [t \in Tasks |-> "idle"]
    /\ frames = [t \in Tasks |-> NoFrame]
    /\ ledger = [stage |-> "none", transaction |-> NoTransaction, before |-> wallets]
    /\ memory = Constructed
    /\ heap = 0
    /\ again = NoAgain
    /\ bip38 = NoString
    /\ enc = NoEnc
    /\ crafted = NoCraft
    /\ tamper = NoTamper
    /\ dec = NoDec
    /\ ver = NoVer

\* bip38 = encrypt(privateKey, compressed, passphrase).  The calls are pure:
\* a run makes one string (Encrypt or Craft), then decrypts and verifies it.
Encrypt(privateKey, compressed, passphrase) ==
    LET res == encrypt(privateKey, compressed, passphrase)
    IN /\ Fresh
       /\ enc' = [called |-> TRUE, privateKey |-> privateKey, compressed |-> compressed,
                  passphrase |-> passphrase, res |-> res]
       /\ bip38' = res.value
       /\ memory' = AfterCall(enc'.res.writes, [memory EXCEPT !.privateKey = privateKey])
       /\ UNCHANGED <<heap, crafted, tamper, dec, ver, again>>
       /\ UNCHANGED varsTransfer

\* a string that did not come from encrypt()
Craft(coding, len, prefix, type, flag, body) ==
    /\ Fresh
    /\ bip38' = CraftString(coding, Payload(len, prefix, type, flag, body))
    /\ crafted' = [made |-> TRUE, coding |-> coding, len |-> len, prefix |-> prefix,
                   type |-> type, flag |-> flag, body |-> body]
    /\ UNCHANGED <<memory, heap, enc, tamper, dec, ver, again>>
    /\ UNCHANGED varsTransfer

\* decrypt(bip38, passphrase)
Decrypt(passphrase) ==
    /\ bip38 # NoString
    /\ dec' = [called |-> TRUE, passphrase |-> passphrase, res |-> decrypt(bip38, passphrase)]
    /\ memory' = AfterCall(dec'.res.writes, memory)
    /\ UNCHANGED <<heap, bip38, enc, crafted, tamper, ver, again>>
    /\ UNCHANGED varsTransfer

\* verify(bip38); verify holds no statement that stores into a buffer
Verify ==
    /\ bip38 # NoString
    /\ ver' = [called |-> TRUE, result |-> verify(bip38)]
    /\ memory' = AfterCall(<<>>, memory)
    /\ UNCHANGED <<heap, bip38, enc, crafted, tamper, dec, again>>
    /\ UNCHANGED varsTransfer

\* the string returned by encrypt() is changed on its way to decrypt()
Tamper(kind, position, mask) ==
    /\ enc.called
    /\ enc.res.status = "ok"
    /\ ~tamper.done
    /\ ~dec.called
    /\ ~ver.called
    /\ again = NoAgain
    /\ position < BufLen(bip38[2])
    /\ bip38' = TamperString(bip38, kind, position, mask)
    /\ tamper' = [done |-> TRUE, kind |-> kind, position |-> position, mask |-> mask]
    /\ UNCHANGED <<memory, heap, enc, crafted, dec, ver, again>>
    /\ UNCHANGED varsTransfer

\* between a call and its second execution, other work of the process leaves
\* other bytes in the pool
Dirty(garbage) ==
    /\ again = NoAgain
    /\ ~tamper.done
    /\ enc.called \/ crafted.made
    /\ heap # garbage
    /\ heap' = garbage
    /\ again' = [again EXCEPT !.call = "pending"]
    /\ UNCHANGED <<memory, bip38, enc, crafted, tamper, dec, ver>>
    /\ UNCHANGED varsTransfer

\* a call made before is made again with the same arguments
Retry(call) ==
    /\ ~again.called
    /\ ~tamper.done
    /\ \/ call = "encrypt" /\ enc.called
       \/ call = "decrypt" /\ dec.called
       \/ call = "verify" /\ ver.called
    /\ \E second \in {IF call = "encrypt"
                       THEN encrypt(enc.privateKey, enc.compressed, enc.passphrase)
                       ELSE IF call = "decrypt" THEN decrypt(bip38, dec.passphrase)
                       ELSE [result |-> verify(bip38), writes |-> <<>>]} :
           /\ again' = [called |-> TRUE, call |-> call,
                        same |-> IF call = "encrypt" THEN second = enc.res
                                 ELSE IF call = "decrypt" THEN second = dec.res
                                 ELSE second.result = ver.result]
           /\ memory' = AfterCall(second.writes, memory)
    /\ UNCHANGED <<heap, bip38, enc, crafted, tamper, dec, ver>>
    /\ UNCHANGED varsTransfer

\* bootstrap() is called and suspends at `await findReceivedTransactions()`
BootstrapCall(t) ==
    /\ tasks[t] = "idle"
    /\ tasks' = [tasks EXCEPT ![t] = "awaiting"]
    /\ UNCHANGED <<wallets, wallets0, history, frames, ledger>>
    /\ UNCHANGED varsBip38

\* the query resolves and the loop runs to its end
BootstrapResume(t) ==
    /\ tasks[t] = "awaiting"
    /\ wallets' = bootstrapLoop(wallets, findReceivedTransactions(history))
    /\ tasks' = [tasks EXCEPT ![t] = "done"]
    /\ UNCHANGED <<wallets0, history, frames, ledger>>
    /\ UNCHANGED varsBip38

\* The ledger starts with wallets of different balances and fresh nonces,
\* before any bootstrap
InitLedger ==
    /\ \E least \in 0..MaxBalance :
           wallets = [a \in Addresses |-> [balance |-> least + (a - 1), nonce |-> 0]]
    /\ wallets0 = wallets
    /\ history = <<>>
    /\ tasks = [t \in Tasks |-> "idle"]
    /\ frames = [t \in Tasks |-> NoFrame]
    /\ ledger = [stage |-> "none", transaction |-> NoTransaction, before |-> wallets]
    /\ memory = Constructed
    /\ heap = 0
    /\ again = NoAgain
    /\ bip38 = NoString
    /\ enc = NoEnc
    /\ crafted = NoCraft
    /\ tamper = NoTamper
    /\ dec = NoDec
    /\ ver = NoVer

\* The handler receives a transfer: it is rejected, or applied to both wallets.
\* One transfer is in flight at a time: the next one is handled once the last
\* one was rejected or reverted.
Apply(transaction) ==
    LET outcome == applyTransaction(wallets, transaction)
    IN /\ ledger.stage # "applied"
       /\ wallets' = outcome.repository
       /\ ledger' = [stage |-> IF outcome.status = "ok" THEN "applied" ELSE "rejected",
                     transaction |-> transaction, before |-> wallets]
       /\ UNCHANGED <<wallets0, history, tasks, frames>>
       /\ UNCHANGED varsBip38

\* The chain is reorganised: the transfer applied last is reverted
Revert ==
    /\ ledger.stage = "applied"
    /\ wallets' = revertTransaction(wallets, ledger.transaction)
    /\ ledger' = [ledger EXCEPT !.stage = "reverted"]
    /\ UNCHANGED <<wallets0, history, tasks, frames>>
    /\ UNCHANGED varsBip38

(***************************************************************************)
(* bootstrap() statement by statement, for calls that run concurrently on  *)
(* the one thread of the event loop.  A call is at "idle" (not called),    *)
(* "awaiting" (suspended at the await of line 14), "reading" (at the head   *)
(* of the loop body, before wallet.balance is read), "writing" (balance     *)
(* read, before it is assigned) or "done".                                  *)
(***************************************************************************)
\* The positions at which a call has given up the thread: the await is the
\* only suspension point of bootstrap()
yields_always(position) == TRUE

yields(position) == position \in {"idle", "awaiting", "done"}

\* A call runs when no other call holds the thread
CanRun(t) == \A u \in Tasks \ {t} : yields(tasks[u])

InitBootstrap ==
    /\ \E least \in 0..MaxBalance :
           wallets = [a \in Addresses |-> [balance |-> least + (a - 1), nonce |-> a]]
    /\ wallets0 = wallets
    /\ \E n \in 0..MaxTx :
           history \in [1..n -> [recipientId : Addresses, amount : 0..MaxAmount]]
    /\ tasks = [t \in Tasks |-> "idle"]
    /\ frames = [t \in Tasks |-> NoFrame]
    /\ ledger = [stage |-> "none", transaction |-> NoTransaction, before |-> wallets]
    /\ memory = Constructed
    /\ heap = 0
    /\ again = NoAgain
    /\ bip38 = NoString
    /\ enc = NoEnc
    /\ crafted = NoCraft
    /\ tamper = NoTamper
    /\ dec = NoDec
    /\ ver = NoVer

\* bootstrap() is called: it starts the query and suspends
Suspend(t) ==
    /\ CanRun(t)
    /\ tasks[t] = "idle"
    /\ tasks' = [tasks EXCEPT ![t] = "awaiting"]
    /\ UNCHANGED <<wallets, wallets0, history, frames, ledger>>
    /\ UNCHANGED varsBip38

\* const transactions = await findReceivedTransactions(): the call resumes
Resume(t) ==
    LET transactions == findReceivedTransactions(history)
    IN /\ CanRun(t)
       /\ tasks[t] = "awaiting"
       /\ frames' = [frames EXCEPT ![t] =
                        [transactions |-> transactions, index |-> 1, balance |-> 0,
                         concurrent |-> \E u \in Tasks \ {t} : tasks[u] = "awaiting"]]
       /\ tasks' = [tasks EXCEPT ![t] = IF Len(transactions) = 0 THEN "done" ELSE "reading"]
       /\ UNCHANGED <<wallets, wallets0, history, ledger>>
       /\ UNCHANGED varsBip38

\* wallet = findByAddress(transaction.recipientId); wallet.balance is read
ReadBalance(t) ==
    LET transaction == frames[t].transactions[frames[t].index]
        wallet == findByAddress(wallets, transaction.recipientId)
    IN /\ CanRun(t)
       /\ tasks[t] = "reading"
       /\ frames' = [frames EXCEPT ![t].balance = wallet.balance]
       /\ tasks' = [tasks EXCEPT ![t] = "writing"]
       /\ UNCHANGED <<wallets, wallets0, history, ledger>>
       /\ UNCHANGED varsBip38

\* wallet.balance = <balance read>.plus(transaction.amount); next transaction
WriteBalance(t) ==
    LET transaction == frames[t].transactions[frames[t].index]
    IN /\ CanRun(t)
       /\ tasks[t] = "writing"
       /\ wallets' = [wallets EXCEPT ![transaction.recipientId].balance =
                          frames[t].balance + transaction.amount]
       /\ frames' = [frames EXCEPT ![t].index = @ + 1]
       /\ tasks' = [tasks EXCEPT ![t] =
                        IF frames[t].index = Len(frames[t].transactions)
                        THEN "done" ELSE "reading"]
       /\ UNCHANGED <<wallets0, history, ledger>>
       /\ UNCHANGED varsBip38

NextBip38 ==
    \/ \E privateKey \in PrivateKeys, compressed \in BOOLEAN, passphrase \in Passphrases :
           Encrypt(privateKey, compressed, passphrase)
    \/ \E c \in CraftInputs : Craft(c[1], c[2], c[3], c[4], c[5], c[6])
    \/ \E position \in 0..42, mask \in TamperMasks : Tamper("digit", position, mask)
    \/ Tamper("alphabet", 0, 0)
    \/ \E passphrase \in Passphrases : Decrypt(passphrase)
    \/ Verify
    \/ \E garbage \in Garbage : Dirty(garbage)
    \/ \E call \in {"encrypt", "decrypt", "verify"} : Retry(call)

NextTransfer ==
    \/ \E t \in Tasks : BootstrapCall(t)
    \/ \E t \in Tasks : BootstrapResume(t)

SpecBip38 == InitBip38 /\ [][NextBip38]_vars

SpecTransfer == InitTransfer /\ [][NextTransfer]_vars

NextBootstrap ==
    \/ \E t \in Tasks : Suspend(t)
    \/ \E t \in Tasks : Resume(t)
    \/ \E t \in Tasks : ReadBalance(t)
    \/ \E t \in Tasks : WriteBalance(t)

SpecBootstrap == InitBootstrap /\ [][NextBootstrap]_vars

NextLedger ==
    \/ \E transaction \in Transactions : Apply(transaction)
    \/ Revert

SpecLedger == InitLedger /\ [][NextLedger]_vars

(***************************************************************************)
(* Properties.                                                             *)
(***************************************************************************)
\* encrypt() was called with a 32-byte key and returned the string at hand
EncOk == enc.called /\ enc.res.status = "ok" /\ bip38 = enc.res.value

\* The header of a crafted payload passes verify()'s structural test
WellFormed(c) ==
    /\ c.coding = "ok"
    /\ c.len = 39
    /\ c.prefix = 1
    /\ \/ c.type = 66 /\ c.flag \in {192, 224}
       \/ c.type = 67 /\ c.flag \in {0, 4, 32, 36}

\* The sum of the historical amounts received by an address
RECURSIVE Received(_, _)
Received(a, transactions) ==
    IF Len(transactions) = 0 THEN 0
    ELSE (IF Head(transactions).recipientId = a THEN Head(transactions).amount ELSE 0)
             + Received(a, Tail(transactions))

TimesReceived(a) == Cardinality({i \in 1..Len(history) : history[i].recipientId = a})

DoneRuns == Cardinality({t \in Tasks : tasks[t] = "done"})

\* C1: round trip.  encrypt of a 32-byte key raises no error, and decrypting
\* its result with the same passphrase returns exactly the key and the
\* compression flag that were encrypted.
C1_RoundTrip ==
    (enc.called /\ BufLen(enc.privateKey) = 32) =>
        /\ enc.res.status = "ok"
        /\ (dec.called /\ dec.passphrase = enc.passphrase /\ bip38 = enc.res.value) =>
               /\ dec.res.status = "ok"
               /\ dec.res.privateKey = enc.privateKey
               /\ dec.res.compressed = enc.compressed

C1_Witness ==
    /\ EncOk
    /\ enc.compressed
    /\ dec.called
    /\ dec.passphrase = enc.passphrase
    /\ dec.res.status = "ok"
    /\ dec.res.privateKey = enc.privateKey

\* C2 as stated: decrypting an encrypted key with any different passphrase
\* fails the salt verification.
C2_DifferentPassphraseFails ==
    (EncOk /\ dec.called /\ dec.passphrase # enc.passphrase) =>
        /\ dec.res.status = "AssertionError"
        /\ dec.res.check = "salt"

\* C2 as amended: decrypting with a passphrase whose UTF-8 encoding differs
\* from that of the encrypting passphrase fails the salt verification and
\* returns nothing, and no decrypt of an encrypted key returns another key.
C2_DifferentSecretFails ==
    (EncOk /\ dec.called) =>
        /\ Utf8(dec.passphrase) # Utf8(enc.passphrase) =>
               /\ dec.res.status = "AssertionError"
               /\ dec.res.check = "salt"
               /\ dec.res.privateKey = <<>>
        /\ dec.res.status = "ok" => dec.res.privateKey = enc.privateKey

C2_Witness ==
    /\ EncOk
    /\ dec.called
    /\ Utf8(dec.passphrase) # Utf8(enc.passphrase)
    /\ dec.res.status = "AssertionError"
    /\ dec.res.check = "salt"

\* C3: verify() is true of every string encrypt() returns, and false of every
\* Base58Check-valid string whose payload has a length other than 39, a type
\* byte outside {0x42, 0x43}, or a flag byte that is invalid for its type.
C3_VerifyOfEncrypted ==
    ver.called =>
        /\ EncOk => ver.result
        /\ (/\ crafted.made
            /\ crafted.coding = "ok"
            /\ \/ crafted.len # 39
               \/ crafted.type \notin {66, 67}
               \/ crafted.type = 66 /\ crafted.flag \notin {192, 224}
               \/ crafted.type = 67 /\ crafted.flag \notin {0, 4, 32, 36})
           => ~ver.result

C3_Witness == ver.called /\ EncOk /\ enc.compressed /\ ver.result

\* C4: verify() always returns a boolean; it is false when Base58Check
\* decoding fails and otherwise true exactly when the payload has 39 bytes,
\* byte 0 is 0x01 and the flag fits the type (0x42: 0xC0 or 0xE0; 0x43: no bit
\* outside 0x24), whatever bytes 3..38 are.
C4_VerifyIsStructural ==
    ver.called =>
        /\ ver.result \in BOOLEAN
        /\ crafted.made => (ver.result <=> WellFormed(crafted))

C4_Witness ==
    /\ ver.called
    /\ crafted.made
    /\ crafted.type = 67
    /\ crafted.flag = 4
    /\ crafted.body = 2
    /\ ver.result

\* C5: encrypt() of a key whose length is not 32 fails with
\* PrivateKeyLengthError before any key derivation, hashing, key stretching or
\* encoding, and produces no string.
C5_KeyLengthChecked ==
    (enc.called /\ BufLen(enc.privateKey) # 32) =>
        /\ enc.res.status = "PrivateKeyLengthError"
        /\ enc.res.log = <<>>
        /\ enc.res.stretch = <<>>
        /\ enc.res.value = NoString
        /\ bip38 = NoString

C5_Witness ==
    /\ enc.called
    /\ BufLen(enc.privateKey) = 33
    /\ enc.compressed
    /\ enc.res.status = "PrivateKeyLengthError"

\* C6: decrypt() reports the first failing check: the decode error, then the
\* length, then the prefix; then type 0x43 goes to the EC-multiply path, where
\* its flag is not tested against 0xC0/0xE0; then any type but 0x42 is a
\* TypeError.
C6_DecryptCheckOrder ==
    (dec.called /\ crafted.made) =>
        IF crafted.coding # "ok"
        THEN /\ dec.res.status \in {"FormatError", "ChecksumError"}
             /\ dec.res.check = "decodeCheck"
        ELSE IF crafted.len # 39 THEN dec.res.status = "Bip38LengthError"
        ELSE IF crafted.prefix # 1 THEN dec.res.status = "Bip38PrefixError"
        ELSE IF crafted.type = 67
             THEN /\ dec.res.path = "ecmult"
                  /\ dec.res.status \in {"ok", "AssertionError"}
                  /\ dec.res.status = "AssertionError" => dec.res.check = "Invalid private key."
        ELSE IF crafted.type # 66 THEN dec.res.status = "Bip38TypeError"
        ELSE dec.res.path = "direct"

C6_Witness ==
    /\ dec.called
    /\ crafted.made
    /\ crafted.coding = "ok"
    /\ crafted.len = 39
    /\ crafted.prefix = 0
    /\ crafted.type = 65
    /\ dec.res.status = "Bip38PrefixError"

\* C7: in the direct path a flag byte other than 0xE0 and 0xC0 fails with
\* CompressionError before any key stretching or decryption, and a returned
\* `compressed` is true exactly when the flag is 0xE0.
C7_DirectFlag ==
    LET direct == \/ EncOk
                  \/ /\ crafted.made
                     /\ crafted.coding = "ok"
                     /\ crafted.len = 39
                     /\ crafted.prefix = 1
                     /\ crafted.type = 66
        flag == IF crafted.made THEN crafted.flag
                ELSE IF enc.compressed THEN 224 ELSE 192
    IN (dec.called /\ direct) =>
           /\ flag \notin {192, 224} =>
                  /\ dec.res.status = "Bip38CompressionError"
                  /\ dec.res.log = <<>>
                  /\ dec.res.stretch = <<>>
           /\ flag \in {192, 224} => dec.res.status # "Bip38CompressionError"
           /\ dec.res.status = "ok" => (dec.res.compressed <=> flag = 224)

C7_Witness ==
    /\ dec.called
    /\ crafted.made
    /\ crafted.coding = "ok"
    /\ crafted.len = 39
    /\ crafted.prefix = 1
    /\ crafted.type = 66
    /\ crafted.flag = 36
    /\ dec.res.status = "Bip38CompressionError"

\* C8: the record of a successful encrypt has 39 bytes: 0x01, 0x42, the flag
\* (0xE0 if compressed, else 0xC0), the first 4 bytes of hash256 of the key's
\* address, and 32 bytes of ciphertext; its type byte is never 0x43.
C8_RecordLayout ==
    EncOk =>
        LET raw == enc.res.raw
            cipherText == Slice(raw, 7, 39)
        IN /\ BufLen(raw) = 39
           /\ Slice(raw, 0, 3) = <<Lit(1), Lit(66), Lit(IF enc.compressed THEN 224 ELSE 192)>>
           /\ Slice(raw, 3, 7) =
                  Slice(hash256(StringBytes(getAddressPrivate(enc.privateKey, enc.compressed))),
                        0, 4)
           /\ BufLen(cipherText) = 32
           /\ \A i \in 1..Len(cipherText) : cipherText[i][1][1] = "aes-enc"
           /\ readUInt8(raw, 1) # 67

C8_Witness ==
    /\ EncOk
    /\ ~enc.compressed
    /\ BufLen(enc.res.raw) = 39
    /\ readUInt8(enc.res.raw, 2) = 192

\* C9: after bootstrap() has run once, the balance of every wallet is its
\* initial balance plus the sum of the amounts of the historical transactions
\* sent to its address.
C9_BootstrapOnce ==
    DoneRuns = 1 =>
        \A a \in Addresses :
            wallets[a].balance = wallets0[a].balance + Received(a, history)

C9_Witness ==
    /\ DoneRuns = 1
    /\ \E a \in Addresses :
           /\ TimesReceived(a) >= 2
           /\ Received(a, history) > 0
           /\ wallets0[a].balance > 0
           /\ wallets[a].balance = wallets0[a].balance + Received(a, history)

\* C10: bootstrap() is not idempotent: after k runs the balance of every
\* wallet is its initial balance plus k times the sum of its received amounts.
C10_BootstrapAddsAgain ==
    \A a \in Addresses :
        wallets[a].balance = wallets0[a].balance + DoneRuns * Received(a, history)

C10_Witness ==
    /\ DoneRuns = 2
    /\ \E a \in Addresses :
           /\ Received(a, history) > 0
           /\ wallets[a].balance = wallets0[a].balance + 2 * Received(a, history)
           /\ wallets[a].balance # wallets0[a].balance + Received(a, history)


\* C11: apply/revert symmetry.  Once the transfer applied last has been
\* reverted, every wallet (the sender's and the recipient's among them) has
\* the balance and the nonce it had before the transfer was applied.
C11_ApplyRevertSymmetry ==
    ledger.stage = "reverted" =>
        \A a \in Addresses :
            /\ wallets[a].balance = ledger.before[a].balance
            /\ wallets[a].nonce = ledger.before[a].nonce

\* a transfer between two wallets, with an amount and a fee, was applied and
\* reverted
C11_Witness ==
    /\ ledger.stage = "reverted"
    /\ ledger.transaction.senderId # ledger.transaction.recipientId
    /\ ledger.transaction.amount > 0
    /\ ledger.transaction.fee > 0

\* C12: a transfer rejected by throwIfCannotBeApplied (insufficient balance
\* or nonce mismatch) leaves every wallet as it was, and after a successful
\* apply no wallet has a negative balance.
C12_RejectionKeepsWallets ==
    /\ ledger.stage = "rejected" => wallets = ledger.before
    /\ ledger.stage = "applied" => \A a \in Addresses : wallets[a].balance >= 0

\* a transfer with the expected nonce was rejected: its sender holds the
\* amount, but not the amount and the fee
C12_Witness ==
    /\ ledger.stage = "rejected"
    /\ ledger.transaction.nonce = wallets[ledger.transaction.senderId].nonce + 1
    /\ ledger.transaction.amount > 0
    /\ wallets[ledger.transaction.senderId].balance >= ledger.transaction.amount
    /\ wallets[ledger.transaction.senderId].balance
           < ledger.transaction.amount + ledger.transaction.fee


\* The string at hand is the Base58Check of a crafted 39-byte record of the
\* EC-multiply type (0x43) with prefix 0x01
CraftedECMult ==
    /\ crafted.made
    /\ crafted.coding = "ok"
    /\ crafted.len = 39
    /\ crafted.prefix = 1
    /\ crafted.type = 67

ValidECMultFlags == {0, 4, 32, 36}

\* C13: the EC-multiply path makes no address-checksum cross-check.  For a
\* record of the EC-multiply type with a valid flag byte, decrypt with any
\* passphrase raises no error: it never computes an address, and it returns a
\* 32-byte private key and compressed, which is true exactly when bit 0x20
\* of the flag byte is set.
C13_ECMultReturnsUnverified ==
    (CraftedECMult /\ crafted.flag \in ValidECMultFlags /\ dec.called) =>
        /\ dec.res.status = "ok"
        /\ dec.res.path = "ecmult"
        /\ BufLen(dec.res.privateKey) = 32
        /\ dec.res.compressed = (crafted.flag \in {32, 36})
        /\ \A i \in 1..Len(dec.res.log) : dec.res.log[i] # "getAddressPrivate"

\* an EC-multiply record with the compression bit and no lot/sequence bit
\* was decrypted, and the result says compressed
C13_Witness ==
    /\ CraftedECMult
    /\ crafted.flag = 32
    /\ dec.called
    /\ dec.res.status = "ok"
    /\ dec.res.compressed

\* C14: on the EC-multiply path a flag byte with a bit outside 0x24 fails the
\* assertion "Invalid private key." before any key stretching, decryption or
\* scalar multiplication; the flags accepted are 0x00, 0x04, 0x20 and 0x24.
C14_ECMultFlagValidated ==
    (CraftedECMult /\ dec.called) =>
        IF crafted.flag \in ValidECMultFlags
        THEN dec.res.status = "ok"
        ELSE /\ dec.res.status = "AssertionError"
             /\ dec.res.check = "Invalid private key."
             /\ dec.res.path = "ecmult"
             /\ dec.res.log = <<>>
             /\ dec.res.stretch = <<>>
             /\ dec.res.privateKey = <<>>

\* an EC-multiply record whose flag byte has the two valid bits and two more
\* (0xE4) was refused
C14_Witness ==
    /\ CraftedECMult
    /\ crafted.flag = 228
    /\ dec.called
    /\ dec.res.status = "AssertionError"


\* C19: on the EC-multiply path the lot/sequence bit (0x04) alone selects
\* the derivation.  With the bit set ownerSalt is the first 4 bytes of
\* ownerEntropy and passFactor is hash256(preFactor || ownerEntropy); with the
\* bit clear ownerSalt is all 8 bytes of ownerEntropy and passFactor is
\* preFactor.  The compression bit (0x20) changes neither, and the public key
\* of passFactor is computed compressed (33 bytes).
C19_LotSeqSelectsDerivation ==
    (CraftedECMult /\ crafted.flag \in ValidECMultFlags /\ dec.called) =>
        LET record == Payload(39, 1, 67, crafted.flag, crafted.body)
            lot == crafted.flag \in {4, 36}
            entropy == Slice(record, 7, 15)
            salt == IF lot THEN Slice(record, 7, 11) ELSE entropy
            stretched == scryptSync(Utf8(dec.passphrase), salt, 32,
                                    [N |-> 16384, r |-> 8, p |-> 8])
        IN /\ dec.res.derived.ownerSalt = salt
           /\ BufLen(dec.res.derived.ownerSalt) = (IF lot THEN 4 ELSE 8)
           /\ dec.res.derived.passFactor =
                  (IF lot THEN hash256(Concat(stretched, entropy)) ELSE stretched)
           /\ dec.res.derived.publicKey = publicKeyOf(dec.res.derived.passFactor, TRUE)
           /\ BufLen(dec.res.derived.publicKey) = 33

\* a record with the lot/sequence bit and the compression bit was decrypted
\* with a 4-byte owner salt
C19_Witness ==
    /\ CraftedECMult
    /\ crafted.flag = 36
    /\ dec.called
    /\ dec.res.status = "ok"
    /\ BufLen(dec.res.derived.ownerSalt) = 4
    /\ dec.res.derived.passFactor[1][1][1] = "hash256"


\* The key stretches of a call, as (N, r, p, salt length, output length)
StandardStretch(saltlen, keylen) ==
    [N |-> 16384, r |-> 8, p |-> 8, saltlen |-> saltlen, keylen |-> keylen]

LightStretch(saltlen, keylen) ==
    [N |-> 1024, r |-> 1, p |-> 1, saltlen |-> saltlen, keylen |-> keylen]

\* C20: exactly two scrypt parameter sets are used.  encrypt and a direct
\* decrypt stretch once, with (16384, 8, 8), a 4-byte salt and 64 bytes of
\* output; an EC-multiply decrypt stretches the passphrase with (16384, 8, 8)
\* over the owner salt, then the seed pass with (1024, 1, 1), which is used
\* nowhere else.
C20_ScryptParameterSets ==
    /\ EncOk => enc.res.stretch = <<StandardStretch(4, 64)>>
    /\ (dec.called /\ dec.res.path = "direct"
           /\ dec.res.status # "Bip38CompressionError") =>
           dec.res.stretch = <<StandardStretch(4, 64)>>
    /\ (dec.called /\ dec.res.path = "ecmult" /\ dec.res.status = "ok") =>
           dec.res.stretch = <<StandardStretch(BufLen(dec.res.derived.ownerSalt), 32),
                               LightStretch(12, 64)>>
    /\ (dec.called /\ dec.res.path # "ecmult") =>
           \A i \in 1..Len(dec.res.stretch) : dec.res.stretch[i].N # 1024

\* an EC-multiply record was decrypted with two stretches, the second one
\* with the light parameters
C20_Witness ==
    /\ CraftedECMult
    /\ dec.called
    /\ dec.res.status = "ok"
    /\ Len(dec.res.stretch) = 2
    /\ dec.res.stretch[2].N = 1024


\* C15: tamper detection.  After a byte of the string returned by encrypt()
\* is flipped, decrypt (with any passphrase) fails: at the Base58Check
\* validation, or at the assertion that the recomputed salt equals the stored
\* one.  It never returns a result.
C15_TamperDetected ==
    (tamper.done /\ dec.called) =>
        /\ \/ dec.res.status \in {"FormatError", "ChecksumError"}
           \/ dec.res.status = "AssertionError" /\ dec.res.check = "salt"
        /\ dec.res.status # "ok"
        /\ dec.res.privateKey = <<>>

\* a string with a flipped bit in its last byte (a byte of the checksum) was
\* decrypted with the passphrase it was encrypted with
C15_Witness ==
    /\ tamper.done
    /\ tamper.kind = "digit"
    /\ tamper.position = 42
    /\ dec.called
    /\ dec.passphrase = enc.passphrase
    /\ dec.res.status # "ok"


C17_Deterministic ==
    /\ again.called => again.same
    /\ (enc.called /\ enc.res.status # "ok") => enc.res.value = NoString
    /\ (dec.called /\ dec.res.status # "ok") => dec.res.privateKey = <<>>

\* encrypt was called again after the pool had changed, with the outcome of
\* the first call
C17_Witness ==
    /\ again.called
    /\ again.call = "encrypt"
    /\ again.same
    /\ enc.res.status = "ok"
    /\ heap # 0


\* The failures of decrypt() that come from the structure of the string: the
\* decode errors, the length, the prefix, the type, the direct-mode flag, and
\* the flag assertion of the EC-multiply path
StructuralFailure(res) ==
    \/ res.status \in {"FormatError", "ChecksumError", "Bip38LengthError",
                        "Bip38PrefixError", "Bip38TypeError", "Bip38CompressionError"}
    \/ res.status = "AssertionError" /\ res.check = "Invalid private key."

\* C21: verify and decrypt agree on structure.  For the string at hand and
\* every passphrase, verify is false exactly when decrypt fails with a
\* structural failure; when verify is true, decrypt returns a result or fails
\* at the direct-mode salt verification.
C21_VerifyAgreesWithDecrypt ==
    (ver.called /\ dec.called) =>
        /\ ~ver.result <=> StructuralFailure(dec.res)
        /\ ver.result =>
               \/ dec.res.status = "ok"
               \/ /\ dec.res.status = "AssertionError"
                  /\ dec.res.check = "salt"
                  /\ dec.res.path = "direct"

\* an EC-multiply record with flag 0xE4 was refused by verify and by the flag
\* assertion of decrypt
C21_Witness ==
    /\ CraftedECMult
    /\ crafted.flag = 228
    /\ ver.called
    /\ ~ver.result
    /\ dec.called
    /\ dec.res.check = "Invalid private key."


\* C22: the frame of bootstrap().  Whatever runs of bootstrap() have been
\* made, the repository holds the same wallets, every wallet has the nonce it
\* started with, no balance is below its initial value, and the balance of a
\* wallet that is the recipient of no historical transaction is unchanged.
C22_BootstrapFrame ==
    /\ DOMAIN wallets = DOMAIN wallets0
    /\ \A a \in Addresses :
           /\ DOMAIN wallets[a] = DOMAIN wallets0[a]
           /\ wallets[a].nonce = wallets0[a].nonce
           /\ wallets[a].balance >= wallets0[a].balance
           /\ TimesReceived(a) = 0 => wallets[a].balance = wallets0[a].balance

\* bootstrap() has run, with a wallet that received an amount and another
\* one, holding a balance, that received nothing
C22_Witness ==
    /\ DoneRuns >= 1
    /\ \E a, b \in Addresses :
           /\ Received(a, history) > 0
           /\ wallets[a].balance > wallets0[a].balance
           /\ TimesReceived(b) = 0
           /\ wallets0[b].balance > 0
           /\ wallets[b] = wallets0[b]


\* The calls of bootstrap() that are inside the loop
InLoop == {t \in Tasks : tasks[t] \in {"reading", "writing"}}

\* C23: bootstrap() suspends only at its await, and its loop runs without
\* yielding.  At most one call is inside the loop at a time, and a call that
\* is between a read and a write finds the balance it read still in the
\* wallet; so no update is lost: whenever no call is inside the loop every
\* balance is the initial one plus the received amounts once for each call
\* that is done (twice for two concurrent calls).
C23_BootstrapLoopAtomic ==
    /\ Cardinality(InLoop) <= 1
    /\ \A t \in Tasks :
           tasks[t] = "writing" =>
               LET transaction == frames[t].transactions[frames[t].index]
               IN wallets[transaction.recipientId].balance = frames[t].balance
    /\ InLoop = {} =>
           \A a \in Addresses :
               wallets[a].balance = wallets0[a].balance + DoneRuns * Received(a, history)

\* two calls were suspended at their await at the same time, and both are
\* done: a recipient holds its initial balance and twice what it received
C23_Witness ==
    /\ DoneRuns = 2
    /\ InLoop = {}
    /\ \E t \in Tasks : tasks[t] = "done" /\ frames[t].concurrent
    /\ \E a \in Addresses :
           /\ TimesReceived(a) >= 2
           /\ Received(a, history) > 0
           /\ wallets[a].balance = wallets0[a].balance + 2 * Received(a, history)

====
